---------------------------- MODULE Spec2Model ----------------------------
(***************************************************************************)
(* A2L-Wizard: the extraction engine of src/data_utils.py and the window   *)
(* of src/gui.py.                                                          *)
(*                                                                         *)
(*   clean_text          the text normalizer                               *)
(*   parse_a2l_file      the line scanner and the per-block extractors     *)
(*   search_parameters   the substring search over a Store                 *)
(*   A2LSearchWindow     load, the filters, the search timer, export       *)
(*                                                                         *)
(* Text is modelled by TLA+ strings, handled character by character the    *)
(* way the Python string methods and regular expressions handle it.        *)
(* A Python dict is a function from its keys; an insertion-ordered dict    *)
(* keyed by name (the Store) is a sequence of [name, det] entries.         *)
(***************************************************************************)
EXTENDS Integers, Sequences, FiniteSets, TLC

VARIABLES
    data,       \* parse_a2l_file: the Store being built (ordered name -> record)
    current,    \* parse_a2l_file: keyword of the open block, "" when none
    name,       \* parse_a2l_file: name of the open block
    desc,       \* parse_a2l_file: description of the open block
    lines,      \* parse_a2l_file: buffered lines of the open block
    line,       \* parse_a2l_file: the stripped line handled by the last iteration
    nread,      \* number of lines of the file consumed so far
    closed,     \* history: <<block>> handed to an extractor by the last iteration, else <<>>
    prior,      \* history: <<record>> the last emission displaced from the Store, else <<>>
    dropped,    \* history: <<block>> that was open when the last iteration read a /begin, else <<>>
    store,      \* search_parameters: the Store searched (the argument `data`)
    query,      \* search_parameters: the argument `query`
    out,        \* search_parameters: the Store returned
    spc,        \* search_parameters: "ready" before the call, "done" after it
    text,       \* clean_text: the argument of the first call, an Optional[str]
    once,       \* clean_text(text)
    twice,      \* clean_text(clean_text(text))
    npc,        \* clean_text: "start", then "once", then "twice"
    param_dict,     \* A2LSearchWindow.param_dict: the loaded Store
    last_results,   \* A2LSearchWindow.last_results: the Store shown and exported
    search_input,   \* the text of the search field
    type_combo,     \* the current text of the Type selector
    module_combo,   \* the current text of the Module selector
    module_items,   \* the items of the Module selector
    search_timer,   \* TRUE while the single-shot search timer is running
    ev,             \* history: the handler the last step ran, and how a load ended
    path,           \* history: the path the file dialog of the last step returned
    opened,         \* history: the last step called open() on the path
    exported        \* history: <<rows>> the last step wrote to the sheet, else <<>>

scanVars == <<data, current, name, desc, lines, line, nread, closed, prior, dropped>>
searchVars == <<store, query, out, spc>>
normVars == <<text, once, twice, npc>>
guiVars == <<param_dict, last_results, search_input, type_combo, module_combo,
             module_items, search_timer, ev, path, opened, exported>>
vars == <<scanVars, searchVars, normVars, guiVars>>

-----------------------------------------------------------------------------
(* Bounds of the model *)

\* lines of the file read in one load
MaxLines == 6
\* lines buffered for one open block
MaxBuf == 2
\* entries of a searched Store
MaxStore == 2
\* characters of a text given to clean_text
MaxLen == 4

-----------------------------------------------------------------------------
(* Python str primitives *)

Char(s, i) == SubSeq(s, i, i)

\* characters str.strip(), str.split() and the regex class \s treat as whitespace
Whitespace == {" ", "\t", "\n", "\r", "\f"}

UpperChars == "ABCDEFGHIJKLMNOPQRSTUVWXYZ"
LowerChars == "abcdefghijklmnopqrstuvwxyz"
DigitChars == "0123456789"

UpperSet == {Char(UpperChars, i) : i \in 1..26}
LowerSet == {Char(LowerChars, i) : i \in 1..26}
\* the regex class \w
WordChars == UpperSet \cup LowerSet \cup {Char(DigitChars, i) : i \in 1..10} \cup {"_"}


\* str.lower() and str.upper(), character by character
LowerMap == [c \in UpperSet |-> Char(LowerChars, CHOOSE i \in 1..26 : c = Char(UpperChars, i))]
UpperMap == [c \in LowerSet |-> Char(UpperChars, CHOOSE i \in 1..26 : c = Char(LowerChars, i))]

LowerChar(c) == IF c \in UpperSet THEN LowerMap[c] ELSE c

UpperChar(c) == IF c \in LowerSet THEN UpperMap[c] ELSE c

RECURSIVE Lower(_)
Lower(s) == IF s = "" THEN "" ELSE LowerChar(Char(s, 1)) \o Lower(Tail(s))

RECURSIVE Upper(_)
Upper(s) == IF s = "" THEN "" ELSE UpperChar(Char(s, 1)) \o Upper(Tail(s))

\* the end of the greedy run, from index i of s, of the characters in (inside = TRUE) or
\* not in (inside = FALSE) the class cls: the first index >= i at which the run stops,
\* Len(s) + 1 when it reaches the end of s
Span(s, i, cls, inside) ==
    CHOOSE j \in i..(Len(s) + 1) :
        /\ \A k \in i..(j - 1) : (Char(s, k) \in cls) = inside
        /\ j = Len(s) + 1 \/ (Char(s, j) \in cls) # inside

\* \s+ , [^\s]+ , \w+ and [^"]+ from index i
SpanSpace(s, i) == Span(s, i, Whitespace, TRUE)
SpanNonSpace(s, i) == Span(s, i, Whitespace, FALSE)
SpanWord(s, i) == Span(s, i, WordChars, TRUE)
SpanNotQuote(s, i) == Span(s, i, {"\""}, FALSE)

\* str.strip()
Strip(s) ==
    LET a == SpanSpace(s, 1)
        b == IF a > Len(s) THEN a - 1
             ELSE CHOOSE j \in a..Len(s) :
                    /\ Char(s, j) \notin Whitespace
                    /\ \A k \in (j + 1)..Len(s) : Char(s, k) \in Whitespace
    IN  SubSeq(s, a, b)

\* str.split(): whitespace-delimited tokens, empty tokens dropped
RECURSIVE Split(_)
Split(s) ==
    LET a == SpanSpace(s, 1)
        b == SpanNonSpace(s, a)
    IN  IF a > Len(s) THEN <<>>
        ELSE <<SubSeq(s, a, b - 1)>> \o Split(SubSeq(s, b, Len(s)))

\* str.startswith(p)
StartsWith(s, p) == Len(s) >= Len(p) /\ SubSeq(s, 1, Len(p)) = p

\* `q in s`
Contains(s, q) ==
    \E i \in 1..(Len(s) - Len(q) + 1) : SubSeq(s, i, i + Len(q) - 1) = q

\* sep.join(toks)
RECURSIVE Join(_, _)
Join(toks, sep) ==
    IF toks = <<>> THEN ""
    ELSE IF Len(toks) = 1 THEN toks[1]
    ELSE toks[1] \o sep \o Join(Tail(toks), sep)

\* d.get(key, "")
Get(det, key) == IF key \in DOMAIN det THEN det[key] ELSE ""

-----------------------------------------------------------------------------
(* clean_text *)

\* Optional[str]: None is <<>>, a string s is <<s>>
None == <<>>
Some(s) == <<s>>

\* SubNewlines with the pattern '\n' alone: a CR stays
RECURSIVE SubNewlines_LfOnly(_)
SubNewlines_LfOnly(s) ==
    IF s = "" THEN ""
    ELSE IF Char(s, 1) = "\n" THEN " " \o SubNewlines_LfOnly(Tail(s))
    ELSE Char(s, 1) \o SubNewlines_LfOnly(Tail(s))

\* re.sub(r'(\r\n|\n|\r)', ' ', s): each CRLF, LF or CR becomes one space
RECURSIVE SubNewlines(_)
SubNewlines(s) ==
    IF s = "" THEN ""
    ELSE IF Len(s) >= 2 /\ SubSeq(s, 1, 2) = "\r\n"
         THEN " " \o SubNewlines(SubSeq(s, 3, Len(s)))
    ELSE IF Char(s, 1) \in {"\n", "\r"}
         THEN " " \o SubNewlines(Tail(s))
    ELSE Char(s, 1) \o SubNewlines(Tail(s))

clean_text(t) ==
    IF t = None \/ t[1] = "" THEN ""
    ELSE Strip(SubNewlines(t[1]))

-----------------------------------------------------------------------------
(* The extractors *)

_DTOK == {"UBYTE", "SBYTE", "UWORD", "SWORD", "ULONG", "SLONG", "FLOAT16_IEEE",
          "FLOAT32_IEEE", "FLOAT64_IEEE", "DOUBLE", "U64", "S64"}

\* _SYMLINK_RE.search(line): the leftmost  "([^"]+)"  of the line, "" when none
_extract_symbol(l) ==
    LET starts == {p \in 1..Len(l) :
                      /\ Char(l, p) = "\""
                      /\ LET g == SpanNotQuote(l, p + 1)
                         IN  g > p + 1 /\ g <= Len(l)}
    IN  IF starts = {} THEN ""
        ELSE LET p == CHOOSE q \in starts : \A r \in starts : q <= r
             IN  SubSeq(l, p + 1, SpanNotQuote(l, p + 1) - 1)

\* one iteration of parse_characteristic's loop over the block's lines
CharacteristicLine(acc, l) ==
    IF StartsWith(l, "VALUE")
    THEN LET parts == Split(l)
         IN  IF Len(parts) > 1 THEN [acc EXCEPT !.value = parts[2]] ELSE acc
    ELSE IF StartsWith(l, "SYMBOL_LINK")
    THEN [acc EXCEPT !.symbol = _extract_symbol(l)]
    ELSE acc

RECURSIVE CharacteristicScan(_, _)
CharacteristicScan(acc, ls) ==
    IF ls = <<>> THEN acc
    ELSE CharacteristicScan(CharacteristicLine(acc, Head(ls)), Tail(ls))

parse_characteristic(n, d, ls) ==
    LET acc == CharacteristicScan([value |-> "", symbol |-> ""], ls)
    IN  [Type |-> "Characteristic",
         Name |-> n,
         Comment |-> clean_text(Some(d)),
         Value |-> acc.value,
         Symbol_Link |-> acc.symbol]

\* MeasurementLine with the data-type token matched whatever its letter case:
\* `toks[0].upper() in _DTOK`
MeasurementLine_AnyCase(acc, l) ==
    LET toks == Split(l)
    IN  IF toks # <<>> /\ Upper(toks[1]) \in _DTOK
        THEN [acc EXCEPT
                !.dtype = toks[1],
                !.conversion = IF Len(toks) > 1 THEN toks[2] ELSE @,
                !.params = IF Len(toks) > 2 THEN SubSeq(toks, 3, Len(toks)) ELSE @]
        ELSE IF StartsWith(l, "ECU_ADDRESS")
        THEN [acc EXCEPT !.addr = IF Len(toks) > 1 THEN toks[2] ELSE ""]
        ELSE IF StartsWith(l, "ARRAY_SIZE")
        THEN [acc EXCEPT !.array_size = IF Len(toks) > 1 THEN toks[2] ELSE ""]
        ELSE IF StartsWith(l, "SYMBOL_LINK")
        THEN [acc EXCEPT !.symbol = _extract_symbol(l)]
        ELSE acc

\* one iteration of _parse_measurement_like's loop over the block's lines
MeasurementLine(acc, l) ==
    LET toks == Split(l)
    IN  IF toks # <<>> /\ toks[1] \in _DTOK
        THEN [acc EXCEPT
                !.dtype = toks[1],
                !.conversion = IF Len(toks) > 1 THEN toks[2] ELSE @,
                !.params = IF Len(toks) > 2 THEN SubSeq(toks, 3, Len(toks)) ELSE @]
        ELSE IF StartsWith(l, "ECU_ADDRESS")
        THEN [acc EXCEPT !.addr = IF Len(toks) > 1 THEN toks[2] ELSE ""]
        ELSE IF StartsWith(l, "ARRAY_SIZE")
        THEN [acc EXCEPT !.array_size = IF Len(toks) > 1 THEN toks[2] ELSE ""]
        ELSE IF StartsWith(l, "SYMBOL_LINK")
        THEN [acc EXCEPT !.symbol = _extract_symbol(l)]
        ELSE acc

RECURSIVE MeasurementScan(_, _)
MeasurementScan(acc, ls) ==
    IF ls = <<>> THEN acc
    ELSE MeasurementScan(MeasurementLine(acc, Head(ls)), Tail(ls))

_parse_measurement_like(n, d, ls) ==
    LET acc == MeasurementScan([dtype |-> "", conversion |-> "", params |-> <<>>,
                                addr |-> "", symbol |-> "", array_size |-> ""], ls)
        meas_params == IF acc.array_size # ""
                       THEN "ARRAY_SIZE=" \o acc.array_size
                       ELSE Join(acc.params, " ")
    IN  [Name |-> n,
         Comment |-> clean_text(Some(d)),
         Data_Type |-> acc.dtype,
         Conversion |-> acc.conversion,
         Measurement_Params |-> meas_params,
         ECU_Address |-> acc.addr,
         Symbol_Link |-> acc.symbol,
         Type |-> IF acc.array_size # "" THEN "MeasurementArray" ELSE "Measurement"]

parse_measurement(n, d, ls) == _parse_measurement_like(n, d, ls)

parse_measurement_array(n, d, ls) ==
    LET base == _parse_measurement_like(n, d, ls)
        typed == [base EXCEPT !.Type = "MeasurementArray"]
    IN  IF ~Contains(Get(typed, "Measurement_Params"), "ARRAY_SIZE=")
        THEN [typed EXCEPT !.Measurement_Params = Strip(@ \o " ARRAY_SIZE=?")]
        ELSE typed

\* the keywords whose blocks yield a record
Recognized == {"CHARACTERISTIC", "MEASUREMENT", "MEASUREMENT_ARRAY"}

\* any(l.strip().startswith("ARRAY_SIZE") for l in lines)
is_array(ls) == \E i \in 1..Len(ls) : StartsWith(Strip(ls[i]), "ARRAY_SIZE")

\* the record the close of a recognized block stores: the dispatch on the keyword
ParseBlock(kw, n, d, ls) ==
    IF kw = "CHARACTERISTIC" THEN parse_characteristic(n, d, ls)
    ELSE IF kw = "MEASUREMENT"
    THEN IF is_array(ls) THEN parse_measurement_array(n, d, ls)
         ELSE parse_measurement(n, d, ls)
    ELSE parse_measurement_array(n, d, ls)

-----------------------------------------------------------------------------
(* The Store: an insertion-ordered dict *)

Names(st) == {st[i].name : i \in 1..Len(st)}

IndexOf(st, n) == CHOOSE i \in 1..Len(st) : st[i].name = n

\* st[n]
Lookup(st, n) == st[IndexOf(st, n)].det

\* the columns of pd.DataFrame(list(st.values())): the union of the records' keys
ExportColumns(st) == UNION {DOMAIN st[i].det : i \in 1..Len(st)}

\* StorePut with st[n].update(det) for a present key: the old record's other keys stay
StorePut_Update(st, n, det) ==
    IF n \in Names(st)
    THEN LET old == Lookup(st, n)
             merged == [k \in DOMAIN old \cup DOMAIN det |->
                           IF k \in DOMAIN det THEN det[k] ELSE old[k]]
         IN  [st EXCEPT ![IndexOf(st, n)] = [name |-> n, det |-> merged]]
    ELSE Append(st, [name |-> n, det |-> det])

\* st[n] = det: a present key keeps its place, a new key goes last
StorePut(st, n, det) ==
    IF n \in Names(st)
    THEN [st EXCEPT ![IndexOf(st, n)] = [name |-> n, det |-> det]]
    ELSE Append(st, [name |-> n, det |-> det])

-----------------------------------------------------------------------------
(* parse_a2l_file: the scanner *)

\* begin_re.match(l): /begin\s+(\w+)\s+([^\s]+)(?:\s+"([^"]+)")? , ignoring case;
\* <<>> when l does not match, else <<groups>>, the third group an Optional
begin_re(l) ==
    LET n == Len(l)
        b == SpanSpace(l, 7)
        c == SpanWord(l, b)
        d == SpanSpace(l, c)
        e == SpanNonSpace(l, d)
        f == SpanSpace(l, e)
        g == SpanNotQuote(l, f + 1)
        quoted == /\ f > e /\ f <= n /\ Char(l, f) = "\""
                  /\ g > f + 1 /\ g <= n
    IN  IF /\ n >= 6 /\ Lower(SubSeq(l, 1, 6)) = "/begin"
           /\ b > 7 /\ c > b /\ d > c /\ e > d
        THEN <<[g1 |-> SubSeq(l, b, c - 1),
                g2 |-> SubSeq(l, d, e - 1),
                g3 |-> IF quoted THEN Some(SubSeq(l, f + 1, g - 1)) ELSE None]>>
        ELSE <<>>

\* end_re.match(l): /end\s+(\w+) , ignoring case
end_re(l) ==
    LET n == Len(l)
        b == SpanSpace(l, 5)
        c == SpanWord(l, b)
    IN  IF /\ n >= 4 /\ Lower(SubSeq(l, 1, 4)) = "/end"
           /\ b > 5 /\ c > b
        THEN <<[g1 |-> SubSeq(l, b, c - 1)]>>
        ELSE <<>>

\* the raw lines a file is made of
RawLines ==
    {"/begin CHARACTERISTIC A \"d\"", "/begin MEASUREMENT A",
     "/begin measurement_array B  \"e f\"", "/begin AXIS_PTS B",
     "/end CHARACTERISTIC", "/end MEASUREMENT", "/END Measurement_Array",
     "/end AXIS_PTS",
     "VALUE 0x10", "VALUE", "VALUES 9",
     "UBYTE CONV p1 p2", "UWORD", "ubyte c",
     " ARRAY_SIZE 4\n", "ARRAY_SIZE", "ECU_ADDRESS 0x20",
     "SYMBOL_LINK \"a_M\"", " \n"}

\* what the loop body computes from a raw line before it looks at the open block:
\* line = raw.strip(), m_begin = begin_re.match(line), m_end = end_re.match(line)
Scanned ==
    [raw \in RawLines |->
        [line |-> Strip(raw),
         m_begin |-> begin_re(Strip(raw)),
         m_end |-> end_re(Strip(raw))]]

\* parse_a2l_file before its loop
ScanInit ==
    /\ data = <<>>
    /\ current = ""
    /\ name = ""
    /\ desc = ""
    /\ lines = <<>>
    /\ line = ""
    /\ nread = 0
    /\ closed = <<>>
    /\ prior = <<>>
    /\ dropped = <<>>

\* no search called
SearchIdle ==
    /\ store = <<>>
    /\ query = ""
    /\ out = <<>>
    /\ spc = "ready"

\* no text normalized
NormIdle ==
    /\ text = None
    /\ once = ""
    /\ twice = ""
    /\ npc = "start"

\* A2LSearchWindow.__init__: nothing loaded, empty search, both selectors on "All"
GuiIdle ==
    /\ param_dict = <<>>
    /\ last_results = <<>>
    /\ search_input = ""
    /\ type_combo = "All"
    /\ module_combo = "All"
    /\ module_items = {"All"}
    /\ search_timer = FALSE
    /\ ev = "init"
    /\ path = ""
    /\ opened = FALSE
    /\ exported = <<>>

Init == ScanInit /\ SearchIdle /\ NormIdle /\ GuiIdle

\* a blank line: `if not line: continue`
SkipBlank(raw) ==
    /\ nread < MaxLines
    /\ Scanned[raw].line = ""
    /\ line' = Scanned[raw].line
    /\ nread' = nread + 1
    /\ closed' = <<>>
    /\ prior' = <<>>
    /\ dropped' = <<>>
    /\ UNCHANGED <<data, current, name, desc, lines, searchVars, normVars, guiVars>>

\* Begin without `lines = []`: the new block inherits the buffer of the open one
Begin_KeepsBuffer(raw) ==
    /\ nread < MaxLines
    /\ Scanned[raw].line # ""
    /\ Scanned[raw].m_begin # <<>>
    /\ LET m_begin == Scanned[raw].m_begin[1]
       IN  /\ current' = Upper(m_begin.g1)
           /\ name' = m_begin.g2
           /\ desc' = IF m_begin.g3 = None THEN "" ELSE m_begin.g3[1]
    /\ lines' = lines
    /\ line' = Scanned[raw].line
    /\ nread' = nread + 1
    /\ closed' = <<>>
    /\ prior' = <<>>
    /\ dropped' = IF current # ""
                   THEN <<[keyword |-> current, name |-> name,
                           desc |-> desc, lines |-> lines]>>
                   ELSE <<>>
    /\ UNCHANGED <<data, searchVars, normVars, guiVars>>

\* a /begin line opens a block, whatever was open
Begin(raw) ==
    /\ nread < MaxLines
    /\ Scanned[raw].line # ""
    /\ Scanned[raw].m_begin # <<>>
    /\ LET m_begin == Scanned[raw].m_begin[1]
       IN  /\ current' = Upper(m_begin.g1)
           /\ name' = m_begin.g2
           /\ desc' = IF m_begin.g3 = None THEN "" ELSE m_begin.g3[1]
    /\ lines' = <<>>
    /\ line' = Scanned[raw].line
    /\ nread' = nread + 1
    /\ closed' = <<>>
    /\ prior' = <<>>
    /\ dropped' = IF current # ""
                   THEN <<[keyword |-> current, name |-> name,
                           desc |-> desc, lines |-> lines]>>
                   ELSE <<>>
    /\ UNCHANGED <<data, searchVars, normVars, guiVars>>

\* a /end line read while a block is open
End(raw) ==
    /\ nread < MaxLines
    /\ Scanned[raw].line # ""
    /\ Scanned[raw].m_begin = <<>>
    /\ Scanned[raw].m_end # <<>>
    /\ current # ""
    /\ LET block == Upper(Scanned[raw].m_end[1].g1)
       IN  IF block = current
           THEN /\ data' = IF block \in Recognized
                           THEN StorePut(data, name, ParseBlock(block, name, desc, lines))
                           ELSE data
                /\ closed' = <<[keyword |-> current, name |-> name,
                                desc |-> desc, lines |-> lines]>>
                /\ prior' = IF block \in Recognized /\ name \in Names(data)
                            THEN <<Lookup(data, name)>>
                            ELSE <<>>
           ELSE /\ data' = data
                /\ closed' = <<>>
                /\ prior' = <<>>
    /\ current' = ""
    /\ name' = ""
    /\ desc' = ""
    /\ lines' = <<>>
    /\ line' = Scanned[raw].line
    /\ nread' = nread + 1
    /\ dropped' = <<>>
    /\ UNCHANGED <<searchVars, normVars, guiVars>>

\* any other line: buffered while a block is open, dropped otherwise
Other(raw) ==
    /\ nread < MaxLines
    /\ Scanned[raw].line # ""
    /\ Scanned[raw].m_begin = <<>>
    /\ ~(Scanned[raw].m_end # <<>> /\ current # "")
    /\ current # "" => Len(lines) < MaxBuf
    /\ lines' = IF current # "" THEN Append(lines, Scanned[raw].line) ELSE lines
    /\ line' = Scanned[raw].line
    /\ nread' = nread + 1
    /\ closed' = <<>>
    /\ prior' = <<>>
    /\ dropped' = <<>>
    /\ UNCHANGED <<data, current, name, desc, searchVars, normVars, guiVars>>

Next ==
    \E raw \in RawLines :
        \/ SkipBlank(raw)
        \/ Begin(raw)
        \/ End(raw)
        \/ Other(raw)

Spec == Init /\ [][Next]_vars

-----------------------------------------------------------------------------
(* search_parameters *)

\* search_keys with Value searched too
search_keys_Value ==
    <<"Comment", "Value", "Symbol_Link", "Conversion", "Data_Type", "ECU_Address",
      "Measurement_Params">>

\* the fields searched after the name, in the order the loop tries them
search_keys ==
    <<"Comment", "Symbol_Link", "Conversion", "Data_Type", "ECU_Address",
      "Measurement_Params">>

\* NameHit with the guard the fields have: `q and q in name.lower()`
NameHit_Truthy(n, q) == q # "" /\ Contains(Lower(n), q)

\* `q in name.lower()`
NameHit(n, q) == Contains(Lower(n), q)

\* val = str(det.get(key, "")); `val and q in val.lower()`
FieldHit(det, key, q) ==
    LET val == Get(det, key)
    IN  val # "" /\ Contains(Lower(val), q)

\* whether the loop body stores the entry: by its name, else by the first field that hits
EntryHit(e, q) ==
    \/ NameHit(e.name, q)
    \/ \E k \in 1..Len(search_keys) : FieldHit(e.det, search_keys[k], q)

RECURSIVE SearchLoop(_, _, _)
SearchLoop(acc, rest, q) ==
    IF rest = <<>> THEN acc
    ELSE SearchLoop(IF EntryHit(Head(rest), q)
                    THEN StorePut(acc, Head(rest).name, Head(rest).det)
                    ELSE acc,
                    Tail(rest), q)

\* search_parameters without `q = query.lower()`
search_parameters_RawQuery(d, qy) == SearchLoop(<<>>, d, qy)

search_parameters(d, qy) == SearchLoop(<<>>, d, Lower(qy))

\* the blocks whose records make up the searched Stores
SearchNames == {"Ab", "B", "Kx"}
SearchBlocks ==
    {[keyword |-> "CHARACTERISTIC", desc |-> "", lines |-> <<>>],
     [keyword |-> "CHARACTERISTIC", desc |-> "Spark",
      lines |-> <<"VALUE 0xA1", "SYMBOL_LINK \"s_Ign\"">>],
     [keyword |-> "MEASUREMENT", desc |-> "Rpm",
      lines |-> <<"UWORD Conv p1", "ECU_ADDRESS 0xA2">>],
     [keyword |-> "MEASUREMENT_ARRAY", desc |-> "", lines |-> <<>>]}

SearchEntries ==
    {[name |-> n, det |-> ParseBlock(b.keyword, n, b.desc, b.lines)] :
        n \in SearchNames, b \in SearchBlocks}

\* the Stores of at most MaxStore entries, each name at most once
Stores ==
    UNION {{st \in [1..k -> SearchEntries] :
               \A i, j \in 1..k : st[i].name = st[j].name => i = j} :
           k \in 0..MaxStore}

Queries == {"", "a", "ab", "AB", "aB", "rpm", "RPM", "0xA", "char", "onv", "x", "="}

SearchInit ==
    /\ ScanInit
    /\ NormIdle
    /\ GuiIdle
    /\ store \in Stores
    /\ query \in Queries
    /\ out = <<>>
    /\ spc = "ready"

Search ==
    /\ spc = "ready"
    /\ out' = search_parameters(store, query)
    /\ spc' = "done"
    /\ UNCHANGED <<store, query, scanVars, normVars, guiVars>>

SearchNext == Search

SpecSearch == SearchInit /\ [][SearchNext]_vars

-----------------------------------------------------------------------------
(* clean_text applied once and twice *)

NormAlphabet == {"\r", "\n", " ", "\t", "a"}

RECURSIVE StringsUpTo(_)
StringsUpTo(n) ==
    IF n = 0 THEN {""}
    ELSE {""} \cup {c \o w : c \in NormAlphabet, w \in StringsUpTo(n - 1)}

Texts == {None} \cup {Some(w) : w \in StringsUpTo(MaxLen)}

NormInit ==
    /\ ScanInit
    /\ SearchIdle
    /\ GuiIdle
    /\ text \in Texts
    /\ once = ""
    /\ twice = ""
    /\ npc = "start"

NormalizeOnce ==
    /\ npc = "start"
    /\ once' = clean_text(text)
    /\ npc' = "once"
    /\ UNCHANGED <<text, twice, scanVars, searchVars, guiVars>>

NormalizeTwice ==
    /\ npc = "once"
    /\ twice' = clean_text(Some(once))
    /\ npc' = "twice"
    /\ UNCHANGED <<text, once, scanVars, searchVars, guiVars>>

NormNext == NormalizeOnce \/ NormalizeTwice

SpecNorm == NormInit /\ [][NormNext]_vars

-----------------------------------------------------------------------------
(* parse_a2l_file and load_data as functions of the file at a path *)

\* str.endswith
EndsWith(s, suffix) ==
    /\ Len(suffix) <= Len(s)
    /\ SubSeq(s, Len(s) - Len(suffix) + 1, Len(s)) = suffix

\* str.split(sep) for a one-character sep: empty components are kept and the
\* empty string gives one empty component
RECURSIVE SplitOn(_, _)
SplitOn(s, sep) ==
    IF \E i \in 1..Len(s) : Char(s, i) = sep
    THEN LET i == CHOOSE k \in 1..Len(s) :
                     /\ Char(s, k) = sep
                     /\ \A j \in 1..(k - 1) : Char(s, j) # sep
         IN  <<SubSeq(s, 1, i - 1)>> \o SplitOn(SubSeq(s, i + 1, Len(s)), sep)
    ELSE <<s>>

\* the local variables of parse_a2l_file before its loop
ScanStart ==
    [data |-> <<>>, current |-> "", name |-> "", desc |-> "", lines |-> <<>>]

\* one iteration of the loop of parse_a2l_file, on the raw line `raw`
ScanLine(sc, raw) ==
    LET l == Strip(raw)
        m_begin == begin_re(l)
        m_end == end_re(l)
    IN  IF l = "" THEN sc
        ELSE IF m_begin # <<>>
        THEN [sc EXCEPT
                !.current = Upper(m_begin[1].g1),
                !.name = m_begin[1].g2,
                !.desc = IF m_begin[1].g3 = None THEN "" ELSE m_begin[1].g3[1],
                !.lines = <<>>]
        ELSE IF m_end # <<>> /\ sc.current # ""
        THEN LET block == Upper(m_end[1].g1)
             IN  [ScanStart EXCEPT
                     !.data = IF block = sc.current /\ block \in Recognized
                              THEN StorePut(sc.data, sc.name,
                                            ParseBlock(block, sc.name, sc.desc, sc.lines))
                              ELSE sc.data]
        ELSE IF sc.current # ""
        THEN [sc EXCEPT !.lines = Append(@, l)]
        ELSE sc

\* the loop of parse_a2l_file over the first n lines of a file: iteration n runs
\* on the variables sc left by the first n - 1 iterations
RECURSIVE ScanLines(_, _)
ScanLines(content, n) ==
    IF n = 0 THEN ScanStart
    ELSE CHOOSE next \in {ScanLine(sc, content[n]) : sc \in {ScanLines(content, n - 1)}} :
            TRUE

\* a file with three records; module M is the second component of one
\* Symbol_Link, the first of another and the third of the last
FileA ==
    <<"/begin CHARACTERISTIC Ab \"d\"\n", "  VALUE 0x10\n",
      "  SYMBOL_LINK \"a_M_b\"\n", "/end CHARACTERISTIC\n", "\n",
      "/begin MEASUREMENT B\n", "  UWORD Conv\n", "  SYMBOL_LINK \"M_x_y\"\n",
      "/end MEASUREMENT\n",
      "/begin MEASUREMENT Kx\n", "  UBYTE\n", "  ARRAY_SIZE 4\n",
      "  SYMBOL_LINK \"q_r_M\"\n", "/end MEASUREMENT\n">>

\* a file with one record, and a block left open at the end of the file
FileB ==
    <<"/begin CHARACTERISTIC Ab\n", "VALUE 7\n", "SYMBOL_LINK \"c_M\"\n",
      "/end CHARACTERISTIC\n", "/begin MEASUREMENT B\n", "UWORD\n">>

\* the paths the file dialog can return; "" when the dialog is cancelled
FilePaths == {"a.a2l", "B.A2L", "c.txt", "gone.a2l", "bad.a2l"}

\* the files: `exists` tells whether open() succeeds, `readable` how many lines
\* can be read before the read raises OSError (all of them when it does not)
Disk ==
    [p \in FilePaths |->
        CASE p = "a.a2l"    -> [exists |-> TRUE, content |-> FileA, readable |-> Len(FileA)]
          [] p = "B.A2L"    -> [exists |-> TRUE, content |-> FileB, readable |-> Len(FileB)]
          [] p = "c.txt"    -> [exists |-> TRUE, content |-> FileB, readable |-> Len(FileB)]
          [] p = "gone.a2l" -> [exists |-> FALSE, content |-> <<>>, readable |-> 0]
          [] p = "bad.a2l"  -> [exists |-> TRUE, content |-> FileA, readable |-> 5]]

\* the end of parse_a2l_file on the file f, `built` being the local `data` when
\* the loop ended: the exception raised ("" when none), whether open() was
\* called, the number of lines scanned, `built` and <<the Store returned>>
ScanResult(f, built) ==
    IF f.readable < Len(f.content)
    THEN [exc |-> "IOError", opened |-> TRUE, scanned |-> f.readable,
          built |-> built, ret |-> <<>>]
    ELSE [exc |-> "", opened |-> TRUE, scanned |-> Len(f.content),
          built |-> built, ret |-> <<built>>]

\* parse_a2l_file(filepath): open() raises when the file does not exist
parse_a2l_file(filepath) ==
    IF ~Disk[filepath].exists
    THEN [exc |-> "IOError", opened |-> TRUE, scanned |-> 0,
          built |-> <<>>, ret |-> <<>>]
    ELSE ScanResult(Disk[filepath],
                    ScanLines(Disk[filepath].content, Disk[filepath].readable).data)

\* load_data without the extension test
load_data_AnyExtension(p) == parse_a2l_file(p)

\* load_data(path)
load_data(p) ==
    IF ~EndsWith(Lower(p), ".a2l")
    THEN [exc |-> "ValueError", opened |-> FALSE, scanned |-> 0,
          built |-> <<>>, ret |-> <<>>]
    ELSE parse_a2l_file(p)

\* load_data on each path of the dialog
Loaded == [p \in FilePaths |-> load_data(p)]

-----------------------------------------------------------------------------
(* The window of src/gui.py: load, filters, the search timer, export *)

\* update_module_filter: the items of the Module selector for the Store pd
update_module_filter(pd) ==
    {"All"} \cup
    {SplitOn(Get(pd[i].det, "Symbol_Link"), "_")[2] :
        i \in {k \in 1..Len(pd) : Len(SplitOn(Get(pd[k].det, "Symbol_Link"), "_")) >= 2}}

\* _do_search: `parts = link.split("_") if link else []`
ModuleParts(det) ==
    LET link == Get(det, "Symbol_Link")
    IN  IF link # "" THEN SplitOn(link, "_") ELSE <<>>

\* _do_search: the entries whose Type is tf, in the Store's order
RECURSIVE TypeFilter(_, _)
TypeFilter(st, tf) ==
    IF st = <<>> THEN <<>>
    ELSE (IF Get(Head(st).det, "Type") = tf THEN <<Head(st)>> ELSE <<>>)
         \o TypeFilter(Tail(st), tf)

\* _do_search: the entries with `mf in parts`, in the Store's order
RECURSIVE ModuleFilter(_, _)
ModuleFilter(st, mf) ==
    IF st = <<>> THEN <<>>
    ELSE (IF \E k \in 1..Len(ModuleParts(Head(st).det)) :
                 ModuleParts(Head(st).det)[k] = mf
          THEN <<Head(st)>> ELSE <<>>)
         \o ModuleFilter(Tail(st), mf)

\* _do_search on the Store pd with the inputs of the three widgets: the value it
\* assigns to last_results
_do_search(pd, txt, tf, mf) ==
    LET q == Strip(txt)
        byType == IF tf # "All" THEN TypeFilter(pd, tf) ELSE pd
        byModule == IF mf # "All" THEN ModuleFilter(byType, mf) ELSE byType
    IN  IF q # "" THEN search_parameters(byModule, q) ELSE byModule

\* the items of the Type selector
TypeItems == {"All", "Characteristic", "Measurement", "MeasurementArray"}

\* the texts typed into the search field
SearchTexts == {"", " uw", "kx"}

\* load_file with load_data raising: the message box, nothing else
LoadFailed(r) ==
    /\ ev' = r.exc
    /\ UNCHANGED <<param_dict, last_results, search_input, type_combo, module_combo,
                   module_items, search_timer>>

\* load_file with load_data returning a Store: the module list is rebuilt with
\* its signals blocked, clearing the search field starts the timer when the text
\* changes, and _do_search runs at once
LoadDone(r) ==
    /\ param_dict' = r.ret[1]
    /\ module_items' = update_module_filter(param_dict')
    /\ module_combo' = "All"
    /\ search_input' = ""
    /\ search_timer' = (search_timer \/ search_input # "")
    /\ last_results' = _do_search(param_dict', search_input', type_combo, module_combo')
    /\ ev' = "loaded"
    /\ UNCHANGED type_combo

\* load_file: the Open action; r is what load_data(path) does
LoadFile(p) ==
    /\ path' = p
    /\ exported' = <<>>
    /\ IF p = ""
       THEN /\ ev' = "cancelled"
            /\ opened' = FALSE
            /\ UNCHANGED <<param_dict, last_results, search_input, type_combo,
                           module_combo, module_items, search_timer>>
       ELSE \E r \in {Loaded[p]} :
                /\ opened' = r.opened
                /\ IF r.exc # "" THEN LoadFailed(r) ELSE LoadDone(r)
    /\ UNCHANGED <<scanVars, searchVars, normVars>>

\* search_input.textChanged -> _schedule_search
EditText(t) ==
    /\ t # search_input
    /\ search_input' = t
    /\ search_timer' = TRUE
    /\ ev' = "text"
    /\ path' = ""
    /\ opened' = FALSE
    /\ exported' = <<>>
    /\ UNCHANGED <<param_dict, last_results, type_combo, module_combo, module_items>>
    /\ UNCHANGED <<scanVars, searchVars, normVars>>

\* SelectType with type_combo.currentTextChanged left unconnected
SelectType_Unconnected(t) ==
    /\ t # type_combo
    /\ type_combo' = t
    /\ ev' = "type"
    /\ path' = ""
    /\ opened' = FALSE
    /\ exported' = <<>>
    /\ UNCHANGED <<param_dict, last_results, search_input, module_combo, module_items,
                   search_timer>>
    /\ UNCHANGED <<scanVars, searchVars, normVars>>

\* type_combo.currentTextChanged -> _schedule_search
SelectType(t) ==
    /\ t # type_combo
    /\ type_combo' = t
    /\ search_timer' = TRUE
    /\ ev' = "type"
    /\ path' = ""
    /\ opened' = FALSE
    /\ exported' = <<>>
    /\ UNCHANGED <<param_dict, last_results, search_input, module_combo, module_items>>
    /\ UNCHANGED <<scanVars, searchVars, normVars>>

\* module_combo.currentTextChanged -> _schedule_search
SelectModule(m) ==
    /\ m \in module_items
    /\ m # module_combo
    /\ module_combo' = m
    /\ search_timer' = TRUE
    /\ ev' = "module"
    /\ path' = ""
    /\ opened' = FALSE
    /\ exported' = <<>>
    /\ UNCHANGED <<param_dict, last_results, search_input, type_combo, module_items>>
    /\ UNCHANGED <<scanVars, searchVars, normVars>>

\* search_timer.timeout -> _do_search
Timeout ==
    /\ search_timer
    /\ search_timer' = FALSE
    /\ last_results' = _do_search(param_dict, search_input, type_combo, module_combo)
    /\ ev' = "timeout"
    /\ path' = ""
    /\ opened' = FALSE
    /\ exported' = <<>>
    /\ UNCHANGED <<param_dict, search_input, type_combo, module_combo, module_items>>
    /\ UNCHANGED <<scanVars, searchVars, normVars>>

\* export_to_excel: the rows written are list(last_results.values()); nothing is
\* written when last_results is empty or the save dialog is cancelled
Export(save) ==
    /\ exported' = IF last_results # <<>> /\ save
                   THEN <<[i \in 1..Len(last_results) |-> last_results[i].det]>>
                   ELSE <<>>
    /\ ev' = "export"
    /\ path' = ""
    /\ opened' = FALSE
    /\ UNCHANGED <<param_dict, last_results, search_input, type_combo, module_combo,
                   module_items, search_timer>>
    /\ UNCHANGED <<scanVars, searchVars, normVars>>

GuiNext ==
    \/ \E p \in FilePaths \cup {""} : LoadFile(p)
    \/ \E t \in SearchTexts : EditText(t)
    \/ \E t \in TypeItems : SelectType(t)
    \/ \E m \in module_items : SelectModule(m)
    \/ Timeout
    \/ \E save \in BOOLEAN : Export(save)

SpecGui == Init /\ [][GuiNext]_vars

-----------------------------------------------------------------------------
(* Properties of the scanner and the extractors, under Spec *)

\* the block the last iteration closed, and the record the Store holds for it
ClosedBlock == closed[1]
ClosedRecognized == closed # <<>> /\ ClosedBlock.keyword \in Recognized
ClosedRecord == Lookup(data, ClosedBlock.name)

\* the lines of the closed block whose first whitespace-delimited token is tok
LinesWithFirstToken(tok) ==
    {i \in 1..Len(ClosedBlock.lines) :
        LET toks == Split(ClosedBlock.lines[i])
        IN  toks # <<>> /\ toks[1] = tok}

ClosedHasArraySizeLine ==
    \E i \in 1..Len(ClosedBlock.lines) : StartsWith(ClosedBlock.lines[i], "ARRAY_SIZE")

\* C1: a /end line naming another keyword than the open block's, or read while no
\* block is open, changes neither the open block (keyword, name, description,
\* buffered lines) nor the Store.
C1_ForeignEndIgnored ==
    [][(/\ nread' = nread + 1
        /\ begin_re(line') = <<>>
        /\ end_re(line') # <<>>
        /\ current = "" \/ Upper(end_re(line')[1].g1) # current)
       => UNCHANGED <<data, current, name, desc, lines>>]_vars

\* C2: a closed MEASUREMENT block with a line starting with ARRAY_SIZE yields a
\* MeasurementArray record whose Measurement_Params starts with "ARRAY_SIZE=".
C2_ArraySizeLineGivesArray ==
    (/\ closed # <<>>
     /\ ClosedBlock.keyword = "MEASUREMENT"
     /\ ClosedHasArraySizeLine)
    => /\ ClosedRecord.Type = "MeasurementArray"
       /\ StartsWith(ClosedRecord.Measurement_Params, "ARRAY_SIZE=")

\* C3: a closed MEASUREMENT_ARRAY block without an ARRAY_SIZE line yields a
\* MeasurementArray record whose Measurement_Params begins with "ARRAY_SIZE=?".
C3_SentinelLeads ==
    (/\ closed # <<>>
     /\ ClosedBlock.keyword = "MEASUREMENT_ARRAY"
     /\ ~ClosedHasArraySizeLine)
    => /\ ClosedRecord.Type = "MeasurementArray"
       /\ StartsWith(ClosedRecord.Measurement_Params, "ARRAY_SIZE=?")

\* C4: the Value of a closed CHARACTERISTIC block is the second token of its last
\* line whose first token is VALUE, and stays empty when no line has VALUE as its
\* first token.
C4_ValueFromLastValueLine ==
    (closed # <<>> /\ ClosedBlock.keyword = "CHARACTERISTIC")
    => LET vs == LinesWithFirstToken("VALUE")
       IN  IF vs = {} THEN ClosedRecord.Value = ""
           ELSE LET last == CHOOSE i \in vs : \A j \in vs : j <= i
                    toks == Split(ClosedBlock.lines[last])
                IN  Len(toks) > 1 => ClosedRecord.Value = toks[2]

\* C5: the Store holds each name once, and after a recognized block closes, the
\* record under its name is exactly the extraction of that block, whatever record
\* an earlier block of the same name had left there.
C5_LaterBlockReplaces ==
    /\ \A i, j \in 1..Len(data) : data[i].name = data[j].name => i = j
    /\ ClosedRecognized =>
          /\ Cardinality({i \in 1..Len(data) : data[i].name = ClosedBlock.name}) = 1
          /\ ClosedRecord = ParseBlock(ClosedBlock.keyword, ClosedBlock.name,
                                       ClosedBlock.desc, ClosedBlock.lines)

\* C5 witness: the closed block displaced a record of another variant with a Value
C5_Witness ==
    /\ ClosedRecognized
    /\ prior # <<>>
    /\ prior[1].Type = "Characteristic"
    /\ prior[1].Value # ""
    /\ ClosedRecord.Type = "Measurement"
    /\ Len(data) = 1

\* the fixed column set of the tabular consumers
Columns ==
    {"Type", "Name", "Comment", "Value", "Data_Type", "Conversion",
     "Measurement_Params", "ECU_Address", "Symbol_Link"}

\* C6: every record of the Store carries all nine columns, so the exported table
\* of a non-empty Store has exactly these columns.
C6_AllColumnsPresent ==
    /\ \A i \in 1..Len(data) : DOMAIN data[i].det = Columns
    /\ data # <<>> => ExportColumns(data) = Columns

-----------------------------------------------------------------------------
(* Properties of search_parameters, under SpecSearch *)

\* the match the search is specified by: the lower-cased query within the
\* lower-cased name or within one of the six lower-cased fields
Matches(e, qy) ==
    \/ Contains(Lower(e.name), Lower(qy))
    \/ \E key \in {"Comment", "Symbol_Link", "Conversion", "Data_Type",
                   "ECU_Address", "Measurement_Params"} :
          Contains(Lower(Get(e.det, key)), Lower(qy))

\* the entries of st that match, in the order of st
RECURSIVE Matching(_, _)
Matching(st, qy) ==
    IF st = <<>> THEN <<>>
    ELSE (IF Matches(Head(st), qy) THEN <<Head(st)>> ELSE <<>>)
         \o Matching(Tail(st), qy)

\* C7: search returns exactly the matching entries of the Store, each with the
\* Store's record, in the Store's order; a hit only in Value or Type is no match.
C7_SearchIsTheMatchingEntries ==
    spc = "done" => out = Matching(store, query)

\* C7 witness: a two-entry Store of which the search kept the second entry only,
\* the first one holding the query in its Value alone
C7_Witness ==
    /\ spc = "done"
    /\ Len(store) = 2
    /\ out = <<store[2]>>
    /\ Contains(Lower(Get(store[1].det, "Value")), Lower(query))
    /\ query # ""

\* C8: the empty query returns the whole Store.
C8_EmptyQueryReturnsAll ==
    (spc = "done" /\ query = "") => out = store

\* C8 witness: the empty query kept a record whose searched fields are all empty
C8_Witness ==
    /\ spc = "done"
    /\ query = ""
    /\ Len(out) = 2
    /\ \E i \in 1..Len(out) :
          \A k \in 1..Len(search_keys) : Get(out[i].det, search_keys[k]) = ""

\* C9: queries that differ only in letter case return the same Store, and an
\* entry holding the query in another letter case is returned.
C9_CaseInsensitive ==
    spc = "done" =>
        /\ \A q2 \in Queries :
              Lower(q2) = Lower(query) => search_parameters(store, q2) = out
        /\ \A i \in 1..Len(store) :
              Matches(store[i], query) => \E j \in 1..Len(out) : out[j] = store[i]

\* C9 witness: an upper-case query found an entry whose text has it in lower case
C9_Witness ==
    /\ spc = "done"
    /\ query = "RPM"
    /\ out # <<>>
    /\ \A j \in 1..Len(out) : out[j].det.Comment = "Rpm"

-----------------------------------------------------------------------------
(* Properties of clean_text, under SpecNorm *)

\* C10: clean_text is idempotent, and its result holds no CR or LF and neither
\* starts nor ends with whitespace.
C10_NormalizeIdempotent ==
    /\ npc # "start" =>
          /\ \A i \in 1..Len(once) : Char(once, i) \notin {"\r", "\n"}
          /\ once # "" => /\ Char(once, 1) \notin Whitespace
                          /\ Char(once, Len(once)) \notin Whitespace
    /\ npc = "twice" => twice = once

\* C10 witness: a text with a CRLF between two characters, normalized twice
C10_Witness ==
    /\ npc = "twice"
    /\ text # None
    /\ Contains(text[1], "\r\n")
    /\ once = "a a"
    /\ twice = "a a"

-----------------------------------------------------------------------------
(* Properties of the data-type line of a measurement block, under Spec *)

\* the twelve Data-Type tokens of the specification
DataTypeTokens ==
    {"UBYTE", "SBYTE", "UWORD", "SWORD", "ULONG", "SLONG", "FLOAT16_IEEE",
     "FLOAT32_IEEE", "FLOAT64_IEEE", "DOUBLE", "U64", "S64"}

\* the lines of the closed block whose first token is exactly a Data-Type token
DataTypeLines ==
    {i \in 1..Len(ClosedBlock.lines) :
        LET toks == Split(ClosedBlock.lines[i])
        IN  toks # <<>> /\ toks[1] \in DataTypeTokens}

\* the tokens of the last data-type line of the closed block
LastDataTypeLine ==
    Split(ClosedBlock.lines[CHOOSE i \in DataTypeLines : \A j \in DataTypeLines : j <= i])

\* C12: a closed MEASUREMENT block without an ARRAY_SIZE line yields a Measurement
\* whose Data_Type is the first token of its last line starting with one of the
\* twelve Data-Type tokens, and is empty when no line starts with exactly such a token.
C12_DataTypeFromExactToken ==
    (/\ closed # <<>>
     /\ ClosedBlock.keyword = "MEASUREMENT"
     /\ ~ClosedHasArraySizeLine)
    => /\ ClosedRecord.Type = "Measurement"
       /\ ClosedRecord.Data_Type =
             IF DataTypeLines = {} THEN "" ELSE LastDataTypeLine[1]

\* C12 witness: a closed MEASUREMENT block with two data-type lines, the later
\* one decides
C12_Witness ==
    /\ closed # <<>>
    /\ ClosedBlock.keyword = "MEASUREMENT"
    /\ ClosedBlock.lines = <<"UBYTE CONV p1 p2", "UWORD">>
    /\ ClosedRecord.Data_Type = "UWORD"

\* C13: in a closed MEASUREMENT or MEASUREMENT_ARRAY block with a data-type line,
\* Conversion is the second token of the last data-type line, empty when that line
\* has none, and the raw parameter list (the Measurement_Params of a Measurement)
\* is that line's tokens after the second.
C13_FieldsFromOneLine ==
    (/\ closed # <<>>
     /\ ClosedBlock.keyword \in {"MEASUREMENT", "MEASUREMENT_ARRAY"}
     /\ DataTypeLines # {})
    => LET toks == LastDataTypeLine
       IN  /\ ClosedRecord.Conversion = IF Len(toks) > 1 THEN toks[2] ELSE ""
           /\ ClosedRecord.Type = "Measurement" =>
                 ClosedRecord.Measurement_Params =
                    IF Len(toks) > 2 THEN Join(SubSeq(toks, 3, Len(toks)), " ") ELSE ""

-----------------------------------------------------------------------------
(* A /begin line read while a block is open, under Spec *)

\* begin_re and end_re on each stripped line of the input alphabet
LineMatch ==
    [l \in {Scanned[raw].line : raw \in RawLines} |->
        [m_begin |-> begin_re(l), m_end |-> end_re(l)]]

\* C14: a /begin line read while a block is open replaces the open context with
\* the new keyword, name, description and an empty buffer and adds nothing to the
\* Store; and no later line can bring the dropped block back: every step buffers
\* at most the line it read, buffers nothing while no block is open, and changes
\* the Store only by closing the block open now with the lines buffered since its
\* own /begin.
C14_ReopenDropsOpenBlock ==
    [][/\ (current # "" /\ LineMatch[line'].m_begin # <<>>) =>
             /\ data' = data
             /\ current' = Upper(LineMatch[line'].m_begin[1].g1)
             /\ name' = LineMatch[line'].m_begin[1].g2
             /\ desc' = (IF LineMatch[line'].m_begin[1].g3 = None THEN ""
                         ELSE LineMatch[line'].m_begin[1].g3[1])
             /\ lines' = <<>>
       /\ lines' \in {<<>>, lines, Append(lines, line')}
       /\ current' = "" => lines' = <<>>
       /\ data' # data =>
             /\ current \in Recognized
             /\ LineMatch[line'].m_end # <<>>
             /\ Upper(LineMatch[line'].m_end[1].g1) = current
             /\ data' = StorePut(data, name, ParseBlock(current, name, desc, lines))
      ]_vars

\* C14 witness: a recognized block with buffered lines is dropped by a nested /begin
C14_Witness ==
    /\ dropped # <<>>
    /\ dropped[1].keyword = "MEASUREMENT"
    /\ dropped[1].lines = <<"UBYTE CONV p1 p2", "ECU_ADDRESS 0x20">>
    /\ current = "AXIS_PTS"
    /\ lines = <<>>
    /\ data = <<>>

-----------------------------------------------------------------------------
(* Properties of the window, under SpecGui *)

\* the Stores load_data returns, and the Store of a window that loaded nothing
LoadableStores ==
    {<<>>} \cup {Loaded[p].ret[1] : p \in {f \in FilePaths : Loaded[f].exc = ""}}

\* _do_search on every Store the window can hold and every input of the widgets
SearchTable ==
    [pd \in LoadableStores, txt \in SearchTexts, tf \in TypeItems,
     mf \in UNION {update_module_filter(st) : st \in LoadableStores} |->
        _do_search(pd, txt, tf, mf)]

\* what _do_search computes from the window's Store and inputs as they are now
CurrentResults == SearchTable[param_dict, search_input, type_combo, module_combo]

\* C11: a load on a path whose extension is not .a2l (in any letter case) ends
\* with ValueError without open() being called, so no line is scanned and no
\* Store is returned; and a load that fails, by ValueError or by IOError, leaves
\* param_dict and last_results as they were, so that param_dict is always empty
\* or the complete Store of one file, never the part built before a failure.
C11_FailedLoadLeavesStore ==
    /\ [](param_dict \in LoadableStores)
    /\ [][path' # "" =>
            /\ ~EndsWith(Lower(path'), ".a2l") =>
                  /\ ev' = "ValueError"
                  /\ ~opened'
                  /\ Loaded[path'].scanned = 0
                  /\ Loaded[path'].ret = <<>>
            /\ ev' \in {"ValueError", "IOError"} =>
                  UNCHANGED <<param_dict, last_results>>
            /\ ev' # "loaded" => ev' \in {"ValueError", "IOError"}
         ]_vars

\* C11 witness: with a Store loaded and shown, a file that exists but is not
\* named .a2l is refused
C11_Witness ==
    /\ ev = "ValueError"
    /\ path = "c.txt"
    /\ ~opened
    /\ Len(param_dict) = 3
    /\ last_results # <<>>

\* the module of a record as update_module_filter derives it: <<the second
\* `_`-delimited component of Symbol_Link>>, <<>> when there is none
ModuleOf(det) ==
    LET parts == SplitOn(Get(det, "Symbol_Link"), "_")
    IN  IF Len(parts) >= 2 THEN <<parts[2]>> ELSE <<>>

\* C15: after a _do_search with a module M selected, last_results holds exactly
\* the records, among those the Type filter and the search keep, whose
\* Symbol_Link has M as its second `_`-delimited component.
C15_ModuleIsSecondComponent ==
    (ev = "timeout" /\ module_combo # "All") =>
        LET others == SearchTable[param_dict, search_input, type_combo, "All"]
        IN  /\ \A i \in 1..Len(last_results) :
                  ModuleOf(last_results[i].det) = <<module_combo>>
            /\ \A i \in 1..Len(others) :
                  ModuleOf(others[i].det) = <<module_combo>>
                     => others[i].name \in Names(last_results)

\* C16: every edit of the search text and every selection of a Type or a Module
\* starts the search timer and runs no search itself; the timer's expiry runs
\* one _do_search on the inputs as they are then; and whenever no timer is
\* pending, last_results is what _do_search gives for the current param_dict and
\* inputs, and the rows an export writes then are those results.
C16_ResultsFollowInputs ==
    /\ [](~search_timer => last_results = CurrentResults)
    /\ [][/\ ev' \in {"text", "type", "module"} =>
                /\ search_timer'
                /\ <<search_input, type_combo, module_combo>>
                      # <<search_input', type_combo', module_combo'>>
                /\ UNCHANGED <<param_dict, last_results>>
          /\ ev' = "timeout" =>
                /\ search_timer /\ ~search_timer'
                /\ last_results' = CurrentResults'
                /\ UNCHANGED <<param_dict, search_input, type_combo, module_combo>>
          /\ (ev' = "export" /\ ~search_timer /\ exported' # <<>>) =>
                exported' = <<[i \in 1..Len(CurrentResults) |-> CurrentResults[i].det]>>
         ]_vars

\* C16 witness: the timer has expired after the text, the Type and the Module
\* were all changed, and the results shown are the one record they select
C16_Witness ==
    /\ ev = "timeout"
    /\ ~search_timer
    /\ search_input = " uw"
    /\ type_combo = "Measurement"
    /\ module_combo = "x"
    /\ Names(last_results) = {"B"}

=============================================================================
